---- MODULE Spec2Model ----
(***************************************************************************)
(* BubblePanel Web UI: the HTTP client (api.js), the vanilla page          *)
(* (main.jsx), the React page (App.jsx, RunCard.jsx) and the PowerShell    *)
(* probe scripts, as state machines.  One program runs per behaviour; the  *)
(* variable prog says which.                                               *)
(***************************************************************************)
EXTENDS Integers, Sequences, FiniteSets, TLC

VARIABLES
    prog,       \* the program this behaviour runs: "api", "main", "ps", "app",
                \* or "fn" for a function called on its own
    \* ---- api.js exercised on its own
    apiFile,    \* which copy of the client: "api.js" or "part_003"
    apiPc,      \* "idle", "pending" (fetch in flight), "settled"
    apiOp,      \* the exported function that was called
    apiReqs,    \* HTTP requests issued by the current call
    apiRes,     \* what its fetch gave back
    apiOut,     \* how the call's promise settled
    \* ---- main.jsx
    els,        \* the page's controls (value, checked, disabled, content)
    run,        \* the Run click handler: where it is and its locals
    \* ---- the PowerShell probe scripts
    ps,         \* the script: which one, where it is, the clock, its variables
    \* ---- the React App
    app,        \* its state hooks, RunCard's memo, the run in flight, the timers
    \* ---- the functions exercised on their own
    fn          \* one call: the function's file, its argument and what it returned

apiVars == <<apiFile, apiPc, apiOp, apiReqs, apiRes, apiOut>>
mainVars == <<els, run>>
vars == <<prog, apiVars, mainVars, ps, app, fn>>

----------------------------------------------------------------------------
(* Bounds of the model *)

\* longest text typed into a text field, in characters
MaxStrLen == 2
\* main.jsx counts the polls of a run up to this many (the loop itself has
\* no bound: the count stops, the polling does not)
MaxPolls == 2
\* the scripts' -MaxWaitSec (600 or 900 by default), scaled down
MaxWaitSec == 4
\* longest time, in seconds, a GET /run/{id} takes to answer
MaxLatency == 1

----------------------------------------------------------------------------
(* JavaScript values.  Every JSON value is one flat record; a field that   *)
(* the object does not have holds U; a nested result object is named and   *)
(* looked up in JsonObject.                                                *)

U == "undefined"

JUndefined ==
    [t |-> "undefined", id |-> U, ok |-> U, status |-> U, result |-> U,
     error |-> U, stderr |-> U]
JNull == [JUndefined EXCEPT !.t = "null"]
JEmptyObject == [JUndefined EXCEPT !.t = "object"]
JString == [JUndefined EXCEPT !.t = "string"]

\* a RunResult with ok true, and one whose pipeline failed
RunOk == [JEmptyObject EXCEPT !.ok = "true", !.stderr = ""]
RunFailed == [JEmptyObject EXCEPT !.ok = "false", !.stderr = "boom"]

JsonObject(name) ==
    CASE name = "RunOk" -> RunOk
      [] name = "RunFailed" -> RunFailed
      [] name = "null" -> JNull
      [] OTHER -> JUndefined

\* JS truthiness of a value, and of a string-valued field
Truthy(v) == v.t \in {"object", "string"}
TruthyField(f) == f \notin {U, "null", "", "false"}

\* the status object itself where its result was meant
ResultOf_wholeStatus(st) == st

\* the value of the expression  st.result
ResultOf(st) == JsonObject(st.result)

----------------------------------------------------------------------------
(* Response bodies the backend (or a proxy in front of it) can send, as    *)
(* text, and JSON.parse on each of them.                                   *)

TxtEmpty == ""
TxtHtml == "<html>504 Gateway Timeout</html>"
TxtNull == "null"
TxtString == "\"queued\""
TxtEmptyObject == "{}"
TxtJob1 == "{\"id\":\"job1\"}"
TxtJob2 == "{\"id\":\"job2\"}"
TxtRunOk == "{\"ok\":true,\"stderr\":\"\"}"
TxtRunFailed == "{\"ok\":false,\"stderr\":\"boom\"}"
TxtRunning == "{\"status\":\"running\"}"
TxtDoneOk == "{\"status\":\"done\",\"result\":{\"ok\":true,\"stderr\":\"\"}}"
TxtDoneFailed == "{\"status\":\"done\",\"result\":{\"ok\":false,\"stderr\":\"boom\"}}"
TxtDoneNull == "{\"status\":\"done\",\"result\":null}"
TxtDoneBare == "{\"status\":\"done\"}"
TxtError == "{\"status\":\"error\",\"error\":\"out of memory\"}"
TxtErrorBare == "{\"status\":\"error\"}"

BodyTexts ==
    {TxtEmpty, TxtHtml, TxtNull, TxtString, TxtEmptyObject, TxtJob1, TxtJob2,
     TxtRunOk, TxtRunFailed, TxtRunning, TxtDoneOk, TxtDoneFailed, TxtDoneNull,
     TxtDoneBare, TxtError, TxtErrorBare}

\* the texts JSON.parse throws a SyntaxError on
NotJson == {TxtEmpty, TxtHtml}

JSONParse(text) ==
    CASE text = TxtNull -> JNull
      [] text = TxtString -> JString
      [] text = TxtEmptyObject -> JEmptyObject
      [] text = TxtJob1 -> [JEmptyObject EXCEPT !.id = "job1"]
      [] text = TxtJob2 -> [JEmptyObject EXCEPT !.id = "job2"]
      [] text = TxtRunOk -> RunOk
      [] text = TxtRunFailed -> RunFailed
      [] text = TxtRunning -> [JEmptyObject EXCEPT !.status = "running"]
      [] text = TxtDoneOk ->
            [JEmptyObject EXCEPT !.status = "done", !.result = "RunOk"]
      [] text = TxtDoneFailed ->
            [JEmptyObject EXCEPT !.status = "done", !.result = "RunFailed"]
      [] text = TxtDoneNull ->
            [JEmptyObject EXCEPT !.status = "done", !.result = "null"]
      [] text = TxtDoneBare -> [JEmptyObject EXCEPT !.status = "done"]
      [] text = TxtError ->
            [JEmptyObject EXCEPT !.status = "error", !.error = "out of memory"]
      [] text = TxtErrorBare -> [JEmptyObject EXCEPT !.status = "error"]

----------------------------------------------------------------------------
(* What fetch gives back: a response, or a rejection (network failure).    *)

StatusText(code) ==
    CASE code = 200 -> "OK"
      [] code = 500 -> "Internal Server Error"

HttpStatuses == {200, 500}

Responses ==
    [net : {"response"}, status : HttpStatuses, text : BodyTexts]
        \cup {[net |-> "failed", status |-> 0, text |-> ""]}

NoResponse == [net |-> "none", status |-> 0, text |-> ""]

\* the responses the page and the scripts are driven with: every body under
\* 200, an HTML and a JSON body under 500, and a network failure
DriverResponses ==
    {rsp \in Responses :
        rsp.net = "response" /\ rsp.status = 500 => rsp.text \in {TxtHtml, TxtError}}

\* the answers to GET /run/{id}: those of DriverResponses that are a JobStatus
\* of some shape, no JSON at all, or JSON without a status
PollResponses ==
    {rsp \in DriverResponses :
        rsp.text \in {TxtEmpty, TxtHtml, TxtNull, TxtEmptyObject, TxtRunning,
                      TxtDoneOk, TxtDoneFailed, TxtDoneNull, TxtDoneBare,
                      TxtError, TxtErrorBare}}

\* Response.ok
ResOk(rsp) == rsp.status >= 200 /\ rsp.status <= 299

----------------------------------------------------------------------------
(* api.js *)

ApiFiles == {"api.js", "part_003"}

\* an Error object: the fields the callers read
NoError ==
    [name |-> U, message |-> <<>>, kind |-> U, status |-> U,
     statusText |-> U, url |-> U, body |-> U]

\* fetch rejected
NetworkError ==
    [NoError EXCEPT !.name = "TypeError", !.message = <<"Failed to fetch">>]

\* JSON.parse threw and nothing caught it
SyntaxError ==
    [NoError EXCEPT !.name = "SyntaxError", !.message = <<"Unexpected token">>]

readBody(rsp) ==
    [text |-> rsp.text,
     json |-> IF rsp.text \in NotJson THEN JNull ELSE JSONParse(rsp.text)]

httpError(file, rsp, bodyText) ==
    [NoError EXCEPT
        !.name = "Error",
        !.message = <<"HTTP", ToString(rsp.status), StatusText(rsp.status)>>,
        !.kind = "http",
        !.status = ToString(rsp.status),
        !.statusText = IF file = "part_003" THEN StatusText(rsp.status) ELSE U,
        !.url = IF file = "part_003" THEN "url" ELSE U,
        !.body = bodyText]

Resolve(v) == [settled |-> "resolved", value |-> v, err |-> NoError]
Reject(e) == [settled |-> "rejected", value |-> JUndefined, err |-> e]
Unsettled == [settled |-> "pending", value |-> JUndefined, err |-> NoError]

\* json ?? {}
OrEmptyObject(json) == IF json.t \in {"null", "undefined"} THEN JEmptyObject ELSE json

\* getStatus, getPresets, uploadFile, pollJob of api.js; getPresets and
\* uploadFile of part_003
getJson(file, rsp) ==
    IF rsp.net = "failed" THEN Reject(NetworkError)
    ELSE LET b == readBody(rsp) IN
         IF ~ResOk(rsp) THEN Reject(httpError(file, rsp, b.text))
         ELSE Resolve(OrEmptyObject(b.json))

\* getHealth and getStatus of part_003: JSON.parse(text || '{}')
getJsonReparsed(file, rsp) ==
    IF rsp.net = "failed" THEN Reject(NetworkError)
    ELSE LET b == readBody(rsp) IN
         IF ~ResOk(rsp) THEN Reject(httpError(file, rsp, b.text))
         ELSE IF b.text = "" THEN Resolve(JEmptyObject)
         ELSE IF b.text \in NotJson THEN Reject(SyntaxError)
         ELSE Resolve(JSONParse(b.text))

BadJson(text) ==
    [NoError EXCEPT
        !.name = "Error",
        !.message = <<"Invalid JSON from server">>,
        !.kind = "bad-json",
        !.url = "url",
        !.body = IF text = "" THEN "(empty)" ELSE text]

\* runJob as it would be with JSON.parse outside readBody's try
runJob_parseEscapes(file, rsp) ==
    IF rsp.net = "failed" THEN Reject(NetworkError)
    ELSE IF ~ResOk(rsp) THEN Reject(httpError(file, rsp, rsp.text))
    ELSE IF rsp.text \in NotJson THEN Reject(SyntaxError)
    ELSE Resolve(JSONParse(rsp.text))

runJob(file, rsp) ==
    IF rsp.net = "failed" THEN Reject(NetworkError)
    ELSE LET b == readBody(rsp) IN
         IF ~ResOk(rsp) THEN Reject(httpError(file, rsp, b.text))
         ELSE IF ~Truthy(b.json) \/ (file = "part_003" /\ b.json.t # "object")
              THEN Reject(BadJson(b.text))
         ELSE Resolve(b.json)

pollJob(file, rsp) == getJson(file, rsp)

ApiOps(file) ==
    IF file = "api.js"
    THEN {"getStatus", "getPresets", "uploadFile", "runJob", "pollJob"}
    ELSE {"getHealth", "getStatus", "getPresets", "uploadFile", "runJob"}

ApiCall(file, op, rsp) ==
    CASE op = "runJob" -> runJob(file, rsp)
      [] op = "pollJob" -> pollJob(file, rsp)
      [] op \in {"getHealth", "getStatus"} /\ file = "part_003" ->
            getJsonReparsed(file, rsp)
      [] OTHER -> getJson(file, rsp)

----------------------------------------------------------------------------
(* The client on its own: one call at a time, any response *)

InitApi ==
    /\ apiFile \in ApiFiles
    /\ apiPc = "idle"
    /\ apiOp = U
    /\ apiReqs = 0
    /\ apiRes = NoResponse
    /\ apiOut = Unsettled

\* a caller invokes an exported function: it issues its fetch
ApiInvoke ==
    /\ prog = "api"
    /\ apiPc \in {"idle", "settled"}
    /\ \E op \in ApiOps(apiFile) :
        /\ apiOp' = op
        /\ apiPc' = "pending"
        /\ apiReqs' = 1
        /\ apiRes' = NoResponse
        /\ apiOut' = Unsettled
    /\ UNCHANGED <<prog, apiFile, mainVars, ps, app, fn>>

\* the fetch settles and the function runs to its return or throw
ApiSettle ==
    /\ prog = "api"
    /\ apiPc = "pending"
    /\ \E rsp \in Responses :
        /\ apiRes' = rsp
        /\ apiOut' = ApiCall(apiFile, apiOp, rsp)
        /\ apiPc' = "settled"
    /\ UNCHANGED <<prog, apiFile, apiOp, apiReqs, mainVars, ps, app, fn>>

NextApi == ApiInvoke \/ ApiSettle

----------------------------------------------------------------------------
(* Text typed into fields: strings are sequences of characters *)

RECURSIVE TrimStart(_)
TrimStart(s) ==
    IF s = <<>> \/ Head(s) # " " THEN s ELSE TrimStart(Tail(s))

RECURSIVE TrimEnd(_)
TrimEnd(s) ==
    IF s = <<>> \/ s[Len(s)] # " " THEN s ELSE TrimEnd(SubSeq(s, 1, Len(s) - 1))

\* String.prototype.trim
Trim(s) == TrimEnd(TrimStart(s))

Strings(alphabet) == UNION {[1..n -> alphabet] : n \in 0..MaxStrLen}

----------------------------------------------------------------------------
(* main.jsx *)

Engines == {"llm", "encoder"}

\* presets.js (part_005); a field a preset does not name holds U
PRESETS ==
    [label \in {"Encoder Paragraph", "Qwen Paragraph", "Llama Paragraph"} |->
        CASE label = "Encoder Paragraph" ->
                [engine |-> "encoder", ollama_text |-> U, host |-> U,
                 embed_model |-> "sentence-transformers/all-mpnet-base-v2",
                 mlm_refiner |-> FALSE, page_summarize |-> FALSE,
                 page_style |-> "paragraph"]
          [] label = "Qwen Paragraph" ->
                [engine |-> "llm", ollama_text |-> "qwen2.5:7b-instruct",
                 host |-> <<>>, embed_model |-> U, mlm_refiner |-> U,
                 page_summarize |-> TRUE, page_style |-> "paragraph"]
          [] label = "Llama Paragraph" ->
                [engine |-> "llm", ollama_text |-> "llama3.1:latest",
                 host |-> <<>>, embed_model |-> U, mlm_refiner |-> U,
                 page_summarize |-> TRUE, page_style |-> "paragraph"]]

\* what a user types or picks in each control
HostTexts == Strings({" ", "h"})
ModelNames == {"", "qwen2.5:7b-instruct", "llama3.1:latest"}
EmbedNames == {"", "sentence-transformers/all-mpnet-base-v2"}
Styles == {"paragraph", "novel"}

\* els.outputs
Shown(kind, val, msg) == [kind |-> kind, val |-> val, msg |-> msg]
OutInitial == Shown("initial", JUndefined, <<>>)
OutRunning == Shown("Running", JUndefined, <<>>)

setEngineUi(e, engine) ==
    LET llm == engine = "llm"
        canSummarize == llm /\ Trim(e.host) # <<>>
    IN [e EXCEPT
            !.ollamaModelDisabled = ~llm,
            !.hostDisabled = ~llm,
            !.summarizeDisabled = ~canSummarize,
            !.summarize = IF ~canSummarize THEN FALSE ELSE @,
            !.embedModelDisabled = llm,
            !.mlmDisabled = llm]

\* collectRequest as it would be with page_summarize read off the checkbox alone
collectRequest_trustsCheckbox(e) ==
    LET engine == e.engine IN
    [engine |-> engine,
     ollama_text |-> IF engine = "llm" /\ e.ollamaModel # ""
                     THEN e.ollamaModel ELSE "null",
     host |-> IF engine = "llm" THEN Trim(e.host) ELSE <<>>,
     embed_model |-> IF engine = "encoder" THEN e.embedModel ELSE "",
     mlm_refiner |-> engine = "encoder" /\ e.mlm,
     page_summarize |-> e.summarize,
     page_style |-> e.style]

\* the request body collectRequest returns
collectRequest(e) ==
    LET engine == e.engine IN
    [engine |-> engine,
     ollama_text |-> IF engine = "llm" /\ e.ollamaModel # ""
                     THEN e.ollamaModel ELSE "null",
     host |-> IF engine = "llm" THEN Trim(e.host) ELSE <<>>,
     embed_model |-> IF engine = "encoder" THEN e.embedModel ELSE "",
     mlm_refiner |-> engine = "encoder" /\ e.mlm,
     page_summarize |-> engine = "llm" /\ Trim(e.host) # <<>> /\ e.summarize,
     page_style |-> e.style]

NoRequest ==
    [engine |-> U, ollama_text |-> U, host |-> <<>>, embed_model |-> U,
     mlm_refiner |-> FALSE, page_summarize |-> FALSE, page_style |-> U]

\* renderOutputs(result)
renderOutputs(v) ==
    IF ~Truthy(v) THEN Shown("No result.", JUndefined, <<>>)
    ELSE Shown("rendered", v, <<>>)

\* the catch block: String(e?.message || e)
ShowError(e) == Shown("error", JUndefined, e.message)

\* the handler's locals before it runs
RunIdle ==
    [pc |-> "idle", req |-> NoRequest, res |-> JUndefined, st |-> JUndefined,
     done |-> JNull, polls |-> 0]

InitMain ==
    /\ \E engine \in Engines, host \in {<<>>, <<"h">>}, checked \in BOOLEAN :
          els = setEngineUi(
                  [engine |-> engine, ollamaModel |-> "", ollamaModelDisabled |-> FALSE,
                   host |-> host, hostDisabled |-> FALSE,
                   embedModel |-> "", embedModelDisabled |-> FALSE,
                   mlm |-> FALSE, mlmDisabled |-> FALSE,
                   summarize |-> checked, summarizeDisabled |-> FALSE,
                   style |-> "paragraph", runBtnDisabled |-> FALSE,
                   outputs |-> OutInitial],
                  engine)
    /\ run = RunIdle

\* the input listener: the user changes one enabled control, then
\* setEngineUi (engine and host only) and collectRequest run
AfterInput(e, node) ==
    IF node \in {"engine", "host"} THEN setEngineUi(e, e.engine) ELSE e

MainInputEngine ==
    /\ prog = "main"
    /\ \E v \in Engines :
          els' = AfterInput([els EXCEPT !.engine = v], "engine")
    /\ UNCHANGED <<prog, apiVars, run, ps, app, fn>>

MainInputHost ==
    /\ prog = "main"
    /\ ~els.hostDisabled
    /\ \E v \in HostTexts :
          els' = AfterInput([els EXCEPT !.host = v], "host")
    /\ UNCHANGED <<prog, apiVars, run, ps, app, fn>>

MainInputSummarize ==
    /\ prog = "main"
    /\ ~els.summarizeDisabled
    /\ els' = AfterInput([els EXCEPT !.summarize = ~@], "summarize")
    /\ UNCHANGED <<prog, apiVars, run, ps, app, fn>>

MainInputOther ==
    /\ prog = "main"
    /\ \/ /\ ~els.ollamaModelDisabled
          /\ \E v \in ModelNames :
                els' = AfterInput([els EXCEPT !.ollamaModel = v], "ollamaModel")
       \/ /\ ~els.embedModelDisabled
          /\ \E v \in EmbedNames :
                els' = AfterInput([els EXCEPT !.embedModel = v], "embedModel")
       \/ /\ ~els.mlmDisabled
          /\ els' = AfterInput([els EXCEPT !.mlm = ~@], "mlm")
       \/ \E v \in Styles :
                els' = AfterInput([els EXCEPT !.style = v], "style")
    /\ UNCHANGED <<prog, apiVars, run, ps, app, fn>>

\* a preset pill is clicked
MainPresetClick ==
    /\ prog = "main"
    /\ \E label \in DOMAIN PRESETS :
        LET p == PRESETS[label]
            e1 == setEngineUi([els EXCEPT !.engine = p.engine], p.engine)
            e2 == IF p.engine = "encoder"
                  THEN [e1 EXCEPT
                          !.embedModel =
                              IF p.embed_model \in {U, ""}
                              THEN "sentence-transformers/all-mpnet-base-v2"
                              ELSE p.embed_model,
                          !.mlm = (p.mlm_refiner = TRUE),
                          !.summarize = FALSE]
                  ELSE LET h == IF p.host = U THEN <<>> ELSE p.host IN
                       [e1 EXCEPT
                          !.ollamaModel =
                              IF p.ollama_text = U THEN "" ELSE p.ollama_text,
                          !.host = h,
                          !.summarize = (p.page_summarize = TRUE) /\ h # <<>>]
        IN els' = [e2 EXCEPT
                     !.style = IF p.page_style \in {U, ""}
                               THEN "paragraph" ELSE p.page_style]
    /\ UNCHANGED <<prog, apiVars, run, ps, app, fn>>

\* Run is clicked: the handler runs to its first await, runJob(req)
MainRunClick ==
    /\ prog = "main"
    /\ ~els.runBtnDisabled
    /\ run.pc = "idle"
    /\ els' = [els EXCEPT !.runBtnDisabled = TRUE, !.outputs = OutRunning]
    /\ run' = [RunIdle EXCEPT !.pc = "awaitRun", !.req = collectRequest(els)]
    /\ UNCHANGED <<prog, apiVars, ps, app, fn>>

\* the test as it would be without a look at the id
IsQueued_anyObject(v) == Truthy(v)

\* res && res.id
IsQueued(v) == Truthy(v) /\ TruthyField(v.id)

\* the handler leaves through finally
Finish(e, shown) == [e EXCEPT !.outputs = shown, !.runBtnDisabled = FALSE]

\* runJob settles: the handler renders, fails or starts to poll
MainRunJobSettles ==
    /\ prog = "main"
    /\ run.pc = "awaitRun"
    /\ \E rsp \in DriverResponses :
        LET out == runJob("api.js", rsp) IN
        IF out.settled = "rejected"
        THEN /\ els' = Finish(els, ShowError(out.err))
             /\ run' = [run EXCEPT !.pc = "idle", !.req = NoRequest]
        ELSE IF IsQueued(out.value)
        THEN /\ run' = [run EXCEPT !.pc = "sleep", !.req = NoRequest,
                                   !.res = out.value]
             /\ UNCHANGED els
        ELSE /\ els' = Finish(els, renderOutputs(out.value))
             /\ run' = [run EXCEPT !.pc = "idle", !.req = NoRequest,
                                   !.res = out.value]
    /\ UNCHANGED <<prog, apiVars, ps, app, fn>>

\* the 1500 ms timer fires: pollJob(res.id) is called
MainTimerFires ==
    /\ prog = "main"
    /\ run.pc = "sleep"
    /\ run' = [run EXCEPT !.pc = "awaitPoll",
                          !.polls = IF @ < MaxPolls THEN @ + 1 ELSE @]
    /\ UNCHANGED <<prog, apiVars, els, ps, app, fn>>

\* the loop body as it would be with  done = st
PollStep_returnsStatus(st, done) ==
    LET d == IF st.status = "done" THEN st ELSE done IN
    IF st.status = "error"
    THEN [next |-> "throw", done |-> d,
          msg |-> IF TruthyField(st.error) THEN <<st.error>> ELSE <<"Job failed">>]
    ELSE IF Truthy(d) THEN [next |-> "render", done |-> d, msg |-> <<>>]
    ELSE [next |-> "sleep", done |-> d, msg |-> <<>>]

\* what the loop body does with a poll response st, given done so far
PollStep(st, done) ==
    LET d == IF st.status = "done" THEN ResultOf(st) ELSE done IN
    IF st.status = "error"
    THEN [next |-> "throw", done |-> d,
          msg |-> IF TruthyField(st.error) THEN <<st.error>> ELSE <<"Job failed">>]
    ELSE IF Truthy(d) THEN [next |-> "render", done |-> d, msg |-> <<>>]
    ELSE [next |-> "sleep", done |-> d, msg |-> <<>>]

\* the awaited pollJob settles, in a loop that sleeps and polls again after
\* a rejected call
MainPollSettles_retries ==
    /\ prog = "main"
    /\ run.pc = "awaitPoll"
    /\ \E rsp \in PollResponses :
        LET out == pollJob("api.js", rsp) IN
        IF out.settled = "rejected"
        THEN /\ run' = [run EXCEPT !.pc = "sleep", !.st = JUndefined]
             /\ UNCHANGED els
        ELSE LET step == PollStep(out.value, run.done) IN
             /\ run' = [run EXCEPT
                          !.pc = IF step.next = "sleep" THEN "sleep" ELSE "idle",
                          !.st = out.value,
                          !.done = step.done]
             /\ els' = CASE step.next = "throw" ->
                              Finish(els, Shown("error", JUndefined, step.msg))
                         [] step.next = "render" ->
                              Finish(els, renderOutputs(step.done))
                         [] OTHER -> els
    /\ UNCHANGED <<prog, apiVars, ps, app, fn>>

\* pollJob settles: the loop goes round, ends, or the handler fails
MainPollSettles ==
    /\ prog = "main"
    /\ run.pc = "awaitPoll"
    /\ \E rsp \in PollResponses :
        LET out == pollJob("api.js", rsp) IN
        IF out.settled = "rejected"
        THEN /\ els' = Finish(els, ShowError(out.err))
             /\ run' = [run EXCEPT !.pc = "idle", !.st = JUndefined]
        ELSE LET step == PollStep(out.value, run.done) IN
             /\ run' = [run EXCEPT
                          !.pc = IF step.next = "sleep" THEN "sleep" ELSE "idle",
                          !.st = out.value,
                          !.done = step.done]
             /\ els' = CASE step.next = "throw" ->
                              Finish(els, Shown("error", JUndefined, step.msg))
                         [] step.next = "render" ->
                              Finish(els, renderOutputs(step.done))
                         [] OTHER -> els
    /\ UNCHANGED <<prog, apiVars, ps, app, fn>>

NextMain ==
    \/ MainInputEngine \/ MainInputHost \/ MainInputSummarize \/ MainInputOther
    \/ MainPresetClick \/ MainRunClick \/ MainRunJobSettles
    \/ MainTimerFires \/ MainPollSettles

----------------------------------------------------------------------------
(* The PowerShell probe scripts, from Post-Run on (status and upload have  *)
(* succeeded).  "v4" is bubblepanel_test_v4.ps1 lines 1-128, whose         *)
(* Poll-Job part_001 repeats; "part_006" is the full OCR job script.  Both *)
(* run under Set-StrictMode -Version Latest with ErrorActionPreference     *)
(* Stop: reading a property an object lacks, or a variable never set, is a *)
(* terminating error.                                                      *)

Scripts == {"v4", "part_006"}

PollEverySec == 2

\* what Invoke-RestMethod returns for a 2xx body
IrmValue(text) ==
    IF text = "" THEN JNull
    ELSE IF text \in NotJson THEN JString
    ELSE JSONParse(text)

\* the object has the property (strict mode throws when it has not)
HasProp(v, f) == v.t = "object" /\ v[f] # U

WebError(rsp) ==
    IF rsp.net = "failed" THEN <<"Unable to connect to the remote server">>
    ELSE <<"The remote server returned an error: ", ToString(rsp.status)>>
StrictProperty(f) == <<"The property cannot be found on this object: ", f>>
StrictVariable(v) == <<"The variable cannot be retrieved because it has not been set: ", v>>

\* the message of the throw after the poll loop
TimeoutMessage(script, JobId) ==
    IF script = "v4"
    THEN <<"Polling timed out after ", ToString(MaxWaitSec), "s (job id: ", JobId, ").">>
    ELSE StrictVariable("result")

PsStart(script) ==
    [script |-> script, pc |-> "postRun", now |-> 0, deadline |-> 0,
     resp |-> JUndefined, JobId |-> U, s |-> JUndefined, result |-> JUndefined,
     exit |-> "", err |-> <<>>, polls |-> 0]

InitPs == \E script \in Scripts : ps = PsStart(script)

\* a terminating error: which kind, and its message
PsFail(p, kind, msg) == [p EXCEPT !.pc = "failed", !.exit = kind, !.err = msg]

\* POST /run returns; the script tells a queued job from a full result
PsPostRunReturns ==
    /\ prog = "ps"
    /\ ps.pc = "postRun"
    /\ \E rsp \in DriverResponses :
        IF rsp.net = "failed" \/ ~ResOk(rsp)
        THEN ps' = PsFail(ps, "web", WebError(rsp))
        ELSE LET resp == IrmValue(rsp.text)
                 hasId == Truthy(resp) /\ HasProp(resp, "id")
             IN IF hasId /\ TruthyField(resp.id)
                THEN ps' = [ps EXCEPT !.pc = "sleep", !.resp = resp,
                                      !.JobId = resp.id,
                                      !.deadline = ps.now + MaxWaitSec]
                ELSE IF ps.script = "part_006"
                THEN ps' = [ps EXCEPT !.pc = "exit 2", !.resp = resp]
                ELSE ps' = [ps EXCEPT !.pc = "shown", !.resp = resp,
                                      !.result = resp]
    /\ UNCHANGED <<prog, apiVars, mainVars, app, fn>>

\* Start-Sleep ends: GET /run/{id} is sent
PsSleepEnds ==
    /\ prog = "ps"
    /\ ps.pc = "sleep"
    /\ ps' = [ps EXCEPT !.pc = "get", !.now = @ + PollEverySec, !.polls = @ + 1]
    /\ UNCHANGED <<prog, apiVars, mainVars, app, fn>>

\* the loop body as it would be without the line for status "error"
PollJobStep_keepsPolling(p, s, now) ==
    IF ~HasProp(s, "status") THEN PsFail(p, "strict", StrictProperty("status"))
    ELSE IF s.status = "done"
    THEN IF ~HasProp(s, "result") THEN PsFail(p, "strict", StrictProperty("result"))
         ELSE IF p.script = "part_006" /\ ~Truthy(ResultOf(s))
         THEN PsFail(p, "timed out",
                     <<"Polling timed out after ", ToString(MaxWaitSec), "s.">>)
         ELSE [p EXCEPT !.pc = "shown", !.result = ResultOf(s)]
    ELSE IF now < p.deadline THEN [p EXCEPT !.pc = "sleep"]
    ELSE PsFail(p, "timed out", TimeoutMessage(p.script, p.JobId))

\* the rest of the loop body and the loop test, for status object s at time now
PollJobStep(p, s, now) ==
    IF ~HasProp(s, "status") THEN PsFail(p, "strict", StrictProperty("status"))
    ELSE IF s.status = "done"
    THEN IF ~HasProp(s, "result") THEN PsFail(p, "strict", StrictProperty("result"))
         ELSE IF p.script = "part_006" /\ ~Truthy(ResultOf(s))
         THEN PsFail(p, "timed out",
                     <<"Polling timed out after ", ToString(MaxWaitSec), "s.">>)
         ELSE [p EXCEPT !.pc = "shown", !.result = ResultOf(s)]
    ELSE IF s.status = "error"
    THEN IF ~HasProp(s, "error") THEN PsFail(p, "strict", StrictProperty("error"))
         ELSE PsFail(p, "job error", <<"Job error: ", s.error>>)
    ELSE IF now < p.deadline THEN [p EXCEPT !.pc = "sleep"]
    ELSE PsFail(p, "timed out", TimeoutMessage(p.script, p.JobId))

\* GET /run/{id} returns after some seconds
PsGetReturns ==
    /\ prog = "ps"
    /\ ps.pc = "get"
    /\ \E rsp \in PollResponses, latency \in 0..MaxLatency :
        LET p == [ps EXCEPT !.now = @ + latency] IN
        IF rsp.net = "failed" \/ ~ResOk(rsp)
        THEN ps' = PsFail(p, "web", WebError(rsp))
        ELSE LET s == IrmValue(rsp.text) IN
             ps' = PollJobStep([p EXCEPT !.s = s], s, p.now)
    /\ UNCHANGED <<prog, apiVars, mainVars, app, fn>>

NextPs == PsPostRunReturns \/ PsSleepEnds \/ PsGetReturns

----------------------------------------------------------------------------
(* The React App: App.jsx with its RunCard, and the later App of part_002  *)

AppFiles == {"App.jsx", "part_002"}

\* the api module each App imports
ApiOf(file) == IF file = "App.jsx" THEN "api.js" ELSE "part_003"

\* texts of the host field: empty, blank, a slash, a quote, a URL, and a URL
\* in quotes with a trailing slash
AppHostTexts ==
    {<<>>, <<" ">>, <<"/">>, <<"'">>, <<"h">>, <<"'", "h", "/", "'">>}

\* the fields of the form the summarization rule reads or writes
DEFAULT_FORM == [engine |-> "llm", host |-> <<"h">>, page_summarize |-> TRUE]
FormFields == DOMAIN DEFAULT_FORM

FieldValues(k) ==
    CASE k = "engine" -> Engines
      [] k = "host" -> AppHostTexts
      [] k = "page_summarize" -> BOOLEAN

\* GET /presets: the bundles of presets.js under the keys RunCard asks for
PresetKeys == {"encoder_paragraph_mpnet", "llm_paragraph_qwen", "llm_paragraph_llama"}
NoPresets == [key \in {} |-> [engine |-> U]]
BackendPresets ==
    [key \in PresetKeys |->
        IF key = "encoder_paragraph_mpnet"
        THEN [engine |-> "encoder", page_summarize |-> FALSE]
        ELSE [engine |-> "llm", host |-> <<>>, page_summarize |-> TRUE]]

\* the preset with the fields it does not name reset to their defaults
Merge_resetsOthers(prev, p) ==
    [k \in DOMAIN prev |-> IF k \in DOMAIN p THEN p[k] ELSE DEFAULT_FORM[k]]

\* { ...prev, ...p }
Merge(prev, p) == [k \in DOMAIN prev |-> IF k \in DOMAIN p THEN p[k] ELSE prev[k]]

\* RunCard: canSummarize
canSummarize(form) == form.engine = "llm" /\ Trim(form.host) # <<>>

\* the dependency list of RunCard's useMemo
Deps(form) == <<canSummarize(form), form.engine, form.host>>

\* rendering RunCard with a new form until no state update is pending: the
\* useMemo callback runs when a dependency differs from the last render's
Render(form, deps) ==
    IF Deps(form) # deps /\ ~canSummarize(form) /\ form.page_summarize
    THEN [form |-> [form EXCEPT !.page_summarize = FALSE], deps |-> Deps(form)]
    ELSE [form |-> form, deps |-> Deps(form)]

Quotes == {"'", "\""}

\* .replace(/^['"]|['"]$/g, '')
StripQuotes(s) ==
    LET t == IF s # <<>> /\ Head(s) \in Quotes THEN Tail(s) ELSE s IN
    IF t # <<>> /\ t[Len(t)] \in Quotes THEN SubSeq(t, 1, Len(t) - 1) ELSE t

\* .replace(/\/+$/, '')
RECURSIVE StripSlashes(_)
StripSlashes(s) ==
    IF s # <<>> /\ s[Len(s)] = "/" THEN StripSlashes(SubSeq(s, 1, Len(s) - 1)) ELSE s

Sanitize(host) == StripSlashes(StripQuotes(Trim(host)))

\* the form with its input path, which the model keeps in a field of its own
FormOf(a) ==
    [k \in FormFields \cup {"input"} |-> IF k = "input" THEN a.input ELSE a.form[k]]

\* the object onRun passes to runJob
RunBody(file, form) ==
    IF file = "part_002" THEN [form EXCEPT !.host = Sanitize(form.host)] ELSE form

\* the inline error without the pipeline's stderr
PipelineError_noStderr(res) ==
    [NoError EXCEPT
        !.kind = "pipeline",
        !.message = <<"Pipeline returned ok=false">>,
        !.body = "(no stderr)"]

PipelineError(res) ==
    [NoError EXCEPT
        !.kind = "pipeline",
        !.message = <<"Pipeline returned ok=false">>,
        !.body = IF TruthyField(res.stderr) THEN res.stderr ELSE "(no stderr)"]

\* the "Last run logs" card: {result.stderr || '(empty)'}, shown when result is set
LogsStderr(a) ==
    IF ~Truthy(a.result) THEN U
    ELSE IF TruthyField(a.result.stderr) THEN a.result.stderr ELSE "(empty)"

\* the bound on the runs kept in history and on the pending toast timers
MaxHistory == 1
MaxTimers == 1

\* the bound on the runs kept in history in a session that leaves the form alone
MaxRuns == 3

\* the bound on the runs kept in history in a session that compares runs
MaxCompared == 2

AppStart(file) ==
    [file |-> file, form |-> DEFAULT_FORM, deps |-> Deps(DEFAULT_FORM),
     presets |-> NoPresets, presetsPc |-> "loading",
     input |-> "in", uploading |-> FALSE,
     pc |-> "idle", sent |-> DEFAULT_FORM, isRunning |-> FALSE,
     result |-> JNull, history |-> <<>>, toast |-> "", timers |-> 0,
     leftIdx |-> <<>>, rightIdx |-> <<>>,
     error |-> NoError]

InitApp == \E file \in AppFiles : app = AppStart(file)

\* useEffect on mount: getPresets() settles
AppPresetsSettle ==
    /\ prog = "app"
    /\ app.presetsPc = "loading"
    /\ \/ app' = [app EXCEPT !.presetsPc = "loaded", !.presets = BackendPresets]
       \/ \E e \in {NetworkError,
                    httpError(ApiOf(app.file),
                              [net |-> "response", status |-> 500, text |-> TxtHtml],
                              TxtHtml)} :
              app' = [app EXCEPT
                        !.presetsPc = "failed",
                        !.error = IF app.file = "part_002" THEN e ELSE @]
    /\ UNCHANGED <<prog, apiVars, mainVars, ps, fn>>

\* setForm with the next form, and the renders that follow
SetForm(a, form) ==
    LET r == Render(form, a.deps) IN [a EXCEPT !.form = r.form, !.deps = r.deps]

\* RunCard: update(k, v) from a control the user can reach: the host field is
\* rendered for engine llm only, the checkbox is disabled without canSummarize
AppUpdate ==
    /\ prog = "app"
    /\ \E k \in FormFields : \E v \in FieldValues(k) :
        /\ k = "host" => app.form.engine = "llm"
        /\ k = "page_summarize" => canSummarize(app.form)
        /\ app' = SetForm(app, [app.form EXCEPT ![k] = v])
    /\ UNCHANGED <<prog, apiVars, mainVars, ps, fn>>

applyPreset(a, key) ==
    IF key \notin DOMAIN a.presets THEN a
    ELSE SetForm(a, Merge(a.form, a.presets[key]))

AppPresetClick ==
    /\ prog = "app"
    /\ \E key \in PresetKeys : app' = applyPreset(app, key)
    /\ UNCHANGED <<prog, apiVars, mainVars, ps, fn>>

\* the Run button as it would be with no look at the upload
canRun_whileUploading(a) == a.input # "" /\ ~a.isRunning

\* RunCard: canRun = !!form.input && !uploading && !isRunning
canRun(a) == a.input # "" /\ ~a.uploading /\ ~a.isRunning

\* onRun up to  await runJob(...)
AppRunClick ==
    /\ prog \in {"app", "runs", "card", "cmp"}
    /\ canRun(app)
    /\ app.pc = "idle"
    /\ Len(app.history) < (IF prog = "runs" THEN MaxRuns ELSE IF prog = "cmp" THEN MaxCompared ELSE MaxHistory)
    /\ app.timers <= MaxTimers
    /\ app' = [app EXCEPT
                 !.pc = "awaitRun",
                 !.toast = "Running",
                 !.isRunning = TRUE,
                 !.error = IF app.file = "part_002" THEN NoError ELSE @,
                 !.sent = RunBody(app.file, FormOf(app))]
    /\ UNCHANGED <<prog, apiVars, mainVars, ps, fn>>

\* the rest of onRun with the entry's form read when the run settles
onRunSettled_formAtSettle(a, rsp) ==
    LET out == runJob(ApiOf(a.file), rsp)
        res == out.value
        after ==
            IF out.settled = "rejected"
            THEN [a EXCEPT
                    !.toast = "Request failed",
                    !.error = IF a.file = "part_002" THEN out.err ELSE @]
            ELSE [a EXCEPT
                    !.result = res,
                    !.history = <<[ok |-> res.ok, form |-> RunBody(a.file, FormOf(a)),
                                   res |-> res]>> \o @,
                    !.toast = IF TruthyField(res.ok) THEN "Done"
                              ELSE "Finished with errors",
                    !.error = IF a.file = "part_002" /\ ~TruthyField(res.ok)
                              THEN PipelineError(res) ELSE @]
    IN  [after EXCEPT !.pc = "idle", !.isRunning = FALSE, !.timers = @ + 1]

\* the rest of onRun with the new entry put after the earlier ones
onRunSettled_appends(a, rsp) ==
    LET out == runJob(ApiOf(a.file), rsp)
        res == out.value
        after ==
            IF out.settled = "rejected"
            THEN [a EXCEPT
                    !.toast = "Request failed",
                    !.error = IF a.file = "part_002" THEN out.err ELSE @]
            ELSE [a EXCEPT
                    !.result = res,
                    !.history = @ \o <<[ok |-> res.ok, form |-> a.sent, res |-> res]>>,
                    !.toast = IF TruthyField(res.ok) THEN "Done"
                              ELSE "Finished with errors",
                    !.error = IF a.file = "part_002" /\ ~TruthyField(res.ok)
                              THEN PipelineError(res) ELSE @]
    IN  [after EXCEPT !.pc = "idle", !.isRunning = FALSE, !.timers = @ + 1]

\* the rest of onRun, once POST /run has answered rsp
onRunSettled(a, rsp) ==
    LET out == runJob(ApiOf(a.file), rsp)
        res == out.value
        after ==
            IF out.settled = "rejected"
            THEN [a EXCEPT
                    !.toast = "Request failed",
                    !.error = IF a.file = "part_002" THEN out.err ELSE @]
            ELSE [a EXCEPT
                    !.result = res,
                    !.history = <<[ok |-> res.ok, form |-> a.sent, res |-> res]>> \o @,
                    !.toast = IF TruthyField(res.ok) THEN "Done"
                              ELSE "Finished with errors",
                    !.error = IF a.file = "part_002" /\ ~TruthyField(res.ok)
                              THEN PipelineError(res) ELSE @]
    IN  [after EXCEPT !.pc = "idle", !.isRunning = FALSE, !.timers = @ + 1]

AppRunSettles ==
    /\ prog \in {"app", "runs", "card", "cmp"}
    /\ app.pc = "awaitRun"
    /\ \E rsp \in DriverResponses : app' = onRunSettled(app, rsp)
    /\ UNCHANGED <<prog, apiVars, mainVars, ps, fn>>

\* setTimeout(() => setToast(''), 1800)
AppToastTimerFires ==
    /\ prog \in {"app", "runs", "card", "cmp"}
    /\ app.timers > 0
    /\ app' = [app EXCEPT !.toast = "", !.timers = @ - 1]
    /\ UNCHANGED <<prog, apiVars, mainVars, ps, fn>>

\* History: Open on entry i
AppHistoryOpen ==
    /\ prog \in {"app", "runs", "card", "cmp"}
    /\ \E i \in 1..Len(app.history) :
          app' = [app EXCEPT !.result = app.history[i].res]
    /\ UNCHANGED <<prog, apiVars, mainVars, ps, fn>>

\* leftIdx and rightIdx hold null (the empty sequence) or one index into
\* history, counted from 0.  left / right: what a Compare slot shows
CompareSlot(a, idx) ==
    IF idx = <<>> THEN JNull
    ELSE IF idx[1] < Len(a.history) THEN a.history[idx[1] + 1].res
    ELSE JUndefined

\* onChange of a Compare select: "Left run..." or one of the listed runs
AppCompareSelect ==
    /\ prog = "cmp"
    /\ \E v \in {<<>>} \cup {<<i>> : i \in 0..(Len(app.history) - 1)} :
          \/ app' = [app EXCEPT !.leftIdx = v]
          \/ app' = [app EXCEPT !.rightIdx = v]
    /\ UNCHANGED <<prog, apiVars, mainVars, ps, fn>>

NextApp ==
    \/ AppPresetsSettle
    \/ AppUpdate
    \/ AppPresetClick
    \/ AppRunClick
    \/ AppRunSettles
    \/ AppToastTimerFires
    \/ AppHistoryOpen

----------------------------------------------------------------------------
(* buildCommandPreview, called on its own with any option bundle.  The     *)
(* preview is the text the function returns, as a sequence of atoms: a     *)
(* flag word, the words python and smoke_test.py, or one character of a    *)
(* value.  App.jsx and part_002 hold the same function.                    *)

PreviewFiles == {"main.jsx", "App.jsx"}

\* the option bundles: text values without and with whitespace, and empty
\* where the function tests the value
Bundles ==
    [input : {<<"i">>, <<"i", " ", "j">>},
     out : {<<"o">>, <<"o", " ", "p">>},
     jsonl : {<<"l">>, <<"l", " ", "m">>},
     engine : Engines,
     ollama_text : {<<>>, <<"q">>, <<"q", " ", "r">>},
     host : {<<>>, <<"h">>, <<"h", " ", "g">>},
     embed_model : {<<"e">>, <<"e", " ", "f">>},
     mlm_refiner : BOOLEAN, page_summarize : BOOLEAN, page_style : Styles,
     recon_verbose : BOOLEAN, save_crops : BOOLEAN, all_ocr : BOOLEAN,
     ocr_verbose : BOOLEAN, no_ocr : BOOLEAN]

\* Array.prototype.join
RECURSIVE Join(_, _)
Join(parts, sep) ==
    IF parts = <<>> THEN <<>>
    ELSE IF Len(parts) = 1 THEN parts[1]
    ELSE parts[1] \o sep \o Join(Tail(parts), sep)

\* x => (/\s/.test(x) ? `"${x}"` : x)
Quote(x) ==
    IF \E i \in 1..Len(x) : x[i] = " " THEN <<"\"">> \o x \o <<"\"">> ELSE x

\* if (b) parts.push(...more)
PushIf(b, more) == IF b THEN more ELSE <<>>

\* the advanced flags with the two OCR flags pushed in the other order
AdvancedBits_ocrSwapped(f) ==
    PushIf(f.recon_verbose, <<<<"--recon-verbose">>>>)
    \o PushIf(f.save_crops, <<<<"--save-crops">>>>)
    \o PushIf(f.ocr_verbose, <<<<"--ocr-verbose">>>>)
    \o PushIf(f.all_ocr, <<<<"--all-ocr">>>>)
    \o PushIf(f.no_ocr, <<<<"--no-ocr">>>>)

\* the advanced flags, the same lines in both files
AdvancedBits(f) ==
    PushIf(f.recon_verbose, <<<<"--recon-verbose">>>>)
    \o PushIf(f.save_crops, <<<<"--save-crops">>>>)
    \o PushIf(f.all_ocr, <<<<"--all-ocr">>>>)
    \o PushIf(f.ocr_verbose, <<<<"--ocr-verbose">>>>)
    \o PushIf(f.no_ocr, <<<<"--no-ocr">>>>)

StyleFlag(f) == IF f.page_style = "novel" THEN <<"--novel">> ELSE <<"--paragraph">>

\* main.jsx: bits, before bits.join(" ")
MainBits(req) ==
    LET llm == req.engine = "llm" /\ req.ollama_text # <<>> /\ req.host # <<>> IN
    << <<"python", " ", "smoke_test.py">>, <<"--input">>, req.input,
       <<"--out">>, req.out, <<"--jsonl">>, req.jsonl >>
    \o PushIf(req.page_summarize /\ llm, <<<<"--page-summarize">>, StyleFlag(req)>>)
    \o PushIf(llm, <<<<"--ollama-text">>, req.ollama_text, <<"--host">>, req.host>>)
    \o PushIf(req.engine = "encoder",
              <<<<"--encoder">>, <<"--embed-model">>, req.embed_model>>
              \o PushIf(req.mlm_refiner, <<<<"--mlm-refiner">>>>))
    \o AdvancedBits(req)

\* App.jsx's parts with the encoder flags pushed outside the engine test
AppParts_encoderAlways(f) ==
    << <<"python">>, <<"smoke_test.py">>, <<"--input">>, f.input,
       <<"--out">>, f.out, <<"--jsonl">>, f.jsonl >>
    \o PushIf(f.page_summarize, <<<<"--page-summarize">>, StyleFlag(f)>>)
    \o PushIf(f.engine = "llm" /\ f.ollama_text # <<>>,
              <<<<"--ollama-text">>, f.ollama_text, <<"--host">>, f.host>>)
    \o <<<<"--encoder">>, <<"--embed-model">>, f.embed_model>>
    \o PushIf(f.mlm_refiner, <<<<"--mlm-refiner">>>>)
    \o PushIf(f.recon_verbose, <<<<"--recon-verbose">>>>)
    \o PushIf(f.save_crops, <<<<"--save-crops">>>>)
    \o PushIf(f.all_ocr, <<<<"--all-ocr">>>>)
    \o PushIf(f.ocr_verbose, <<<<"--ocr-verbose">>>>)
    \o PushIf(f.no_ocr, <<<<"--no-ocr">>>>)

\* App.jsx: parts, before parts.map(...).join(' ')
AppParts(f) ==
    << <<"python">>, <<"smoke_test.py">>, <<"--input">>, f.input,
       <<"--out">>, f.out, <<"--jsonl">>, f.jsonl >>
    \o PushIf(f.page_summarize, <<<<"--page-summarize">>, StyleFlag(f)>>)
    \o (IF f.engine = "llm"
        THEN PushIf(f.ollama_text # <<>>,
                    <<<<"--ollama-text">>, f.ollama_text, <<"--host">>, f.host>>)
        ELSE <<<<"--encoder">>, <<"--embed-model">>, f.embed_model>>
             \o PushIf(f.mlm_refiner, <<<<"--mlm-refiner">>>>))
    \o AdvancedBits(f)

buildCommandPreview(file, f) ==
    IF file = "main.jsx" THEN Join(MainBits(f), <<" ">>)
    ELSE LET parts == AppParts(f)
         IN  Join([i \in 1..Len(parts) |-> Quote(parts[i])], <<" ">>)

\* collectRequest: els.cmd.textContent = buildCommandPreview(req), for a request
\* as collectRequest returns it.  A null or empty text is the empty sequence
\* (both are falsy); the paths and the advanced flags, which the request only
\* copies from the page, are fixed
CmdText(req) ==
    LET Text(v) == IF v \in {"", "null"} THEN <<>> ELSE <<v>> IN
    buildCommandPreview("main.jsx",
        [input |-> <<"i">>, out |-> <<"o">>, jsonl |-> <<"l">>,
         engine |-> req.engine,
         ollama_text |-> Text(req.ollama_text),
         host |-> req.host,
         embed_model |-> Text(req.embed_model),
         mlm_refiner |-> req.mlm_refiner,
         page_summarize |-> req.page_summarize,
         page_style |-> req.page_style,
         recon_verbose |-> FALSE, save_crops |-> FALSE, all_ocr |-> FALSE,
         ocr_verbose |-> FALSE, no_ocr |-> FALSE])

PreviewCalls ==
    [call : {"preview"}, pc : {"call"}, file : PreviewFiles, f : Bundles,
     cmd : {<<>>}]

\* the function returns
PreviewReturns ==
    /\ prog = "fn"
    /\ fn.call = "preview"
    /\ fn.pc = "call"
    /\ fn' = [fn EXCEPT !.pc = "returned", !.cmd = buildCommandPreview(fn.file, fn.f)]
    /\ UNCHANGED <<prog, apiVars, mainVars, ps, app>>

----------------------------------------------------------------------------
(* fileUrl and Download-Artifact's URL, called on their own with any path. *)
(* A text is the sequence of its characters' code points (characters of    *)
(* the Basic Multilingual Plane, no lone surrogates).                      *)

MaxPathLen == 3

UrlFiles == {"api.js", "v4.ps1"}

\* a, space, '/', e-acute (two UTF-8 bytes), the euro sign (three), and the
\* characters that have a meaning in a URL: % & ? # + = !
PathChars == {97, 32, 47, 233, 8364, 37, 38, 63, 35, 43, 61, 33}

Paths == UNION {[1..n -> PathChars] : n \in 0..MaxPathLen}

\* the bytes of one character in UTF-8
Utf8(c) ==
    IF c < 128 THEN <<c>>
    ELSE IF c < 2048 THEN <<192 + (c \div 64), 128 + (c % 64)>>
    ELSE <<224 + (c \div 4096), 128 + ((c \div 64) % 64), 128 + (c % 64)>>

\* one byte as %XX, in upper-case hexadecimal
PercentByte(b) ==
    LET Hex(n) == IF n < 10 THEN 48 + n ELSE 55 + n
    IN  <<37, Hex(b \div 16), Hex(b % 16)>>

IsAlnum(c) == c \in 48..57 \/ c \in 65..90 \/ c \in 97..122

\* the characters each function leaves as they are: encodeURIComponent keeps
\* - _ . ! ~ * ' ( ), [uri]::EscapeDataString keeps - _ . ~
Unescaped(file, c) ==
    \/ IsAlnum(c)
    \/ c \in {45, 95, 46, 126}
    \/ file = "api.js" /\ c \in {33, 42, 39, 40, 41}

RECURSIVE Escape(_, _)
Escape(file, p) ==
    IF p = <<>> THEN <<>>
    ELSE LET c == Head(p)
             bytes == Utf8(c)
             EscapeBytes[i \in 0..Len(bytes)] ==
                 IF i = 0 THEN <<>> ELSE EscapeBytes[i - 1] \o PercentByte(bytes[i])
         IN  (IF Unescaped(file, c) THEN <<c>> ELSE EscapeBytes[Len(bytes)])
             \o Escape(file, Tail(p))

\* a path written without escaping anything
encodeURIComponent_asIs(file, p) == p

\* encodeURIComponent(p) in api.js, [uri]::EscapeDataString($ServerPath) in the script
encodeURIComponent(file, p) == Escape(file, p)

\* the base address: API in api.js, $Base in the script (here with the
\* trailing slash UrlJoin trims)
BaseOf(file) == IF file = "api.js" THEN <<98>> ELSE <<98, 47>>

\* "file?path="
FilePath == <<102, 105, 108, 101, 63, 112, 97, 116, 104, 61>>

\* UrlJoin: one slash between the two parts
UrlJoin(a, b) ==
    LET RECURSIVE TrimEndSlash(_)
        TrimEndSlash(x) ==
            IF x # <<>> /\ x[Len(x)] = 47 THEN TrimEndSlash(SubSeq(x, 1, Len(x) - 1))
            ELSE x
        RECURSIVE TrimStartSlash(_)
        TrimStartSlash(x) ==
            IF x # <<>> /\ x[1] = 47 THEN TrimStartSlash(Tail(x)) ELSE x
    IN  TrimEndSlash(a) \o <<47>> \o TrimStartSlash(b)

\* api.js: `${API}/file?path=${encodeURIComponent(p)}`
\* script: UrlJoin $Base ("file?path=" + [uri]::EscapeDataString($ServerPath))
fileUrl(file, p) ==
    IF file = "api.js"
    THEN BaseOf(file) \o <<47>> \o FilePath \o encodeURIComponent(file, p)
    ELSE UrlJoin(BaseOf(file), FilePath \o encodeURIComponent(file, p))

UrlCalls == [call : {"fileUrl"}, pc : {"call"}, file : UrlFiles, p : Paths, url : {<<>>}]

\* the function returns
FileUrlReturns ==
    /\ prog = "fn"
    /\ fn.call = "fileUrl"
    /\ fn.pc = "call"
    /\ fn' = [fn EXCEPT !.pc = "returned", !.url = fileUrl(fn.file, fn.p)]
    /\ UNCHANGED <<prog, apiVars, mainVars, ps, app>>

----------------------------------------------------------------------------
(* The artifact view: Gallery (App.jsx's result card) and main.jsx's       *)
(* renderOutputs, called on their own with any RunResult.  The view is the *)
(* sequence of entries put on the page, top to bottom.                     *)

MaxList == 2

ViewFiles == {"Gallery.jsx", "main.jsx"}

ArtifactLists == UNION {[1..n -> {<<97>>, <<32, 233>>}] : n \in 0..MaxList}

RunResults == [overlays : ArtifactLists, text_files : ArtifactLists, jsonls : ArtifactLists]

\* list.map(p => <img src={fileUrl(p)}/> or <a href={fileUrl(p)}>{p}</a>)
Entries(list, name, tag) ==
    [i \in 1..Len(list) |->
        [of |-> name, tag |-> tag, href |-> fileUrl("api.js", list[i]), label |-> list[i]]]

\* Gallery shows the three lists; renderOutputs shows text_files and jsonls
renderLists(file, result) ==
    IF file = "Gallery.jsx"
    THEN Entries(result.overlays, "overlays", "img")
         \o Entries(result.text_files, "text_files", "a")
         \o Entries(result.jsonls, "jsonls", "a")
    ELSE Entries(result.text_files, "text_files", "a")
         \o Entries(result.jsonls, "jsonls", "a")

ViewCalls ==
    [call : {"render"}, pc : {"call"}, file : ViewFiles, result : RunResults,
     view : {<<>>}]

\* the view is on the page
ViewRendered ==
    /\ prog = "fn"
    /\ fn.call = "render"
    /\ fn.pc = "call"
    /\ fn' = [fn EXCEPT !.pc = "returned", !.view = renderLists(fn.file, fn.result)]
    /\ UNCHANGED <<prog, apiVars, mainVars, ps, app>>

----------------------------------------------------------------------------
(* The upload handlers: onFileChange of RunCard and the change listener of *)
(* main.jsx, from the moment the awaited uploadFile settles.               *)

UploadUis == {"RunCard.jsx", "main.jsx"}

\* how uploadFile(file) settles: it rejects, or resolves with the parsed body
UploadOutcomes ==
    {[settled |-> "rejected", ok |-> U, ui_path |-> U, path |-> U]}
    \cup [settled : {"resolved"}, ok : {U, "false", "true"},
          ui_path : {U, "/ui"}, path : {U, "/p"}]

\* res?.ui_path || res?.path
ServerPath(up) == IF up.ui_path # U THEN up.ui_path ELSE up.path

\* the input path and what the user is told once the upload has settled:
\* RunCard alerts in its catch block and updates the path under res?.ok &&
\* serverPath; main.jsx writes the error into els.outputs in its catch block
\* and assigns up.ui_path || up.path to els.inputPath.value otherwise
onFileChange(ui, input, up) ==
    IF up.settled = "rejected"
    THEN [input |-> input,
          told |-> IF ui = "RunCard.jsx" THEN "Upload failed" ELSE "error"]
    ELSE IF ui = "RunCard.jsx"
    THEN [input |-> IF TruthyField(up.ok) /\ ServerPath(up) # U
                    THEN ServerPath(up) ELSE input,
          told |-> ""]
    ELSE [input |-> ServerPath(up), told |-> ""]

UploadCalls ==
    [call : {"upload"}, pc : {"call"}, ui : UploadUis, input : {"", "in"},
     up : UploadOutcomes, told : {""}, after : {U}]

\* the handler has run to its end
UploadHandled ==
    /\ prog = "fn"
    /\ fn.call = "upload"
    /\ fn.pc = "call"
    /\ LET r == onFileChange(fn.ui, fn.input, fn.up) IN
       fn' = [fn EXCEPT !.pc = "returned", !.told = r.told, !.after = r.input]
    /\ UNCHANGED <<prog, apiVars, mainVars, ps, app>>

\* RunCard: the user types an input path, or clears it
CardEditInput ==
    /\ prog = "card"
    /\ \E v \in {"", "in"} : app' = [app EXCEPT !.input = v]
    /\ UNCHANGED <<prog, apiVars, mainVars, ps, fn>>

\* onFileChange up to  await uploadFile(file); the Choose image button is
\* disabled while an upload is in progress
CardChooseFile ==
    /\ prog = "card"
    /\ ~app.uploading
    /\ app' = [app EXCEPT !.uploading = TRUE]
    /\ UNCHANGED <<prog, apiVars, mainVars, ps, fn>>

\* the rest of onFileChange
CardUploadSettles ==
    /\ prog = "card"
    /\ app.uploading
    /\ \E up \in UploadOutcomes :
          app' = [app EXCEPT
                    !.input = onFileChange("RunCard.jsx", app.input, up).input,
                    !.uploading = FALSE]
    /\ UNCHANGED <<prog, apiVars, mainVars, ps, fn>>

NextCard ==
    \/ CardEditInput
    \/ CardChooseFile
    \/ CardUploadSettles
    \/ AppRunClick
    \/ AppRunSettles
    \/ AppToastTimerFires
    \/ AppHistoryOpen

InitFn == fn \in PreviewCalls \cup UrlCalls \cup ViewCalls \cup UploadCalls

NextFn == PreviewReturns \/ FileUrlReturns \/ ViewRendered \/ UploadHandled

----------------------------------------------------------------------------
IdleApi ==
    /\ apiFile = "api.js"
    /\ apiPc = "idle"
    /\ apiOp = U
    /\ apiReqs = 0
    /\ apiRes = NoResponse
    /\ apiOut = Unsettled

IdleMain ==
    /\ els = [engine |-> U]
    /\ run = RunIdle

IdlePs == ps = [PsStart("v4") EXCEPT !.pc = "off"]

IdleApp == app = [AppStart("App.jsx") EXCEPT !.pc = "off"]

IdleFn == fn = [call |-> "none"]

\* every program but the one that runs
Others(p) ==
    /\ p = "api" \/ IdleApi
    /\ p = "main" \/ IdleMain
    /\ p = "ps" \/ IdlePs
    /\ p = "app" \/ IdleApp
    /\ p = "fn" \/ IdleFn

OnlyApi == prog = "api" /\ InitApi /\ Others("api")
OnlyMain == prog = "main" /\ InitMain /\ Others("main")
OnlyPs == prog = "ps" /\ InitPs /\ Others("ps")
OnlyApp == prog = "app" /\ InitApp /\ Others("app")
OnlyFn == prog = "fn" /\ InitFn /\ Others("fn")
\* the React App in a session of runs with the form left as it starts
OnlyRuns == prog = "runs" /\ InitApp /\ Others("app")
\* the React App with its input path and uploads, the other fields left alone
OnlyCard == prog = "card" /\ InitApp /\ Others("app")
OnlyGuard == OnlyCard \/ OnlyMain
OnlyReact == OnlyApp \/ OnlyCard
OnlyCmp == prog = "cmp" /\ InitApp /\ Others("app")
OnlyDrivers == OnlyMain \/ OnlyPs
OnlyClient == OnlyApi \/ OnlyMain

Init ==
    OnlyApi \/ OnlyMain \/ OnlyPs \/ OnlyApp \/ OnlyFn \/ OnlyRuns \/ OnlyCard \/ OnlyCmp
\* a session of several runs with the form left alone
NextRuns ==
    \/ AppRunClick
    \/ AppRunSettles
    \/ AppToastTimerFires
    \/ AppHistoryOpen

\* a session of several runs with two of them put side by side
NextCmp ==
    \/ AppRunClick
    \/ AppRunSettles
    \/ AppToastTimerFires
    \/ AppCompareSelect

Next == NextApi \/ NextMain \/ NextPs \/ NextApp \/ NextFn \/ NextCard \/ NextRuns \/ NextCmp
Spec == Init /\ [][Next]_vars

\* each program on its own
SpecApi == OnlyApi /\ [][NextApi]_vars
SpecMain == OnlyMain /\ [][NextMain]_vars
SpecPs == OnlyPs /\ [][NextPs]_vars
SpecApp == OnlyApp /\ [][NextApp]_vars
\* api.js on its own, and under main.jsx
SpecClient == OnlyClient /\ [][NextApi \/ NextMain]_vars
SpecFn == OnlyFn /\ [][NextFn]_vars
SpecRuns == OnlyRuns /\ [][NextRuns]_vars
SpecCard == OnlyCard /\ [][NextCard]_vars
SpecCmp == OnlyCmp /\ [][NextCmp]_vars
\* the React App: its form, presets and runs, and its input path and uploads
SpecReact == OnlyReact /\ [][NextApp \/ NextCard]_vars
\* the two user interfaces with their Run buttons
SpecGuard == OnlyGuard /\ [][NextCard \/ NextMain]_vars
\* the two polling drivers
NextDrivers == NextMain \/ NextPs
SpecDrivers == OnlyDrivers /\ [][NextDrivers]_vars
\* the drivers with what the event loop, the PowerShell host and an answering
\* backend guarantee: a settled promise's continuation runs, a timer fires,
\* a request is answered, a script statement is followed by the next
FairDrivers ==
    /\ SpecDrivers
    /\ WF_vars(MainRunJobSettles) /\ WF_vars(MainTimerFires)
    /\ WF_vars(MainPollSettles) /\ WF_vars(NextPs)

----------------------------------------------------------------------------
(* The claims *)

Contains(msg, x) == \E i \in 1..Len(msg) : msg[i] = x

\* a response body that carries a job id
HasId(v) == v.t = "object" /\ v.id # U

\* C1: after POST /run answered with an id, main.jsx renders a result, and
\* the scripts' poll loop returns one, only once a poll response had status
\* "done", and it is exactly that response's result; while the polling goes
\* on nothing is rendered or returned.
C1_ResultOnlyFromDonePoll ==
    /\ (prog = "main" /\ HasId(run.res)) =>
          /\ els.outputs.kind = "rendered" =>
                /\ run.pc = "idle"
                /\ run.st.status = "done"
                /\ els.outputs.val = ResultOf(run.st)
          /\ els.outputs.kind # "No result."
    /\ (prog = "ps" /\ ps.JobId # U) =>
          /\ ps.pc = "shown" => ps.s.status = "done" /\ ps.result = ResultOf(ps.s)
          /\ ps.pc # "shown" => ps.result = JUndefined

\* a queued run of main.jsx that was rendered after a non-terminal poll and a
\* done one
C1_Witness ==
    /\ prog = "main"
    /\ run.res.id = "job1"
    /\ run.polls = 2
    /\ run.st.status = "done"
    /\ els.outputs = Shown("rendered", RunOk, <<>>)

\* C2: a poll response with status "error" ends the driver with an error whose
\* message carries the server's error text; the loop is left, so no further
\* GET /run/{id} follows for that job.
C2_JobErrorEndsPolling ==
    /\ (prog = "main" /\ run.st.status = "error") =>
          /\ run.pc = "idle"
          /\ els.outputs.kind = "error"
          /\ TruthyField(run.st.error) => Contains(els.outputs.msg, run.st.error)
    /\ (prog = "ps" /\ HasProp(ps.s, "status") /\ ps.s.status = "error") =>
          /\ ps.pc = "failed"
          /\ HasProp(ps.s, "error") =>
                ps.exit = "job error" /\ Contains(ps.err, ps.s.error)

\* the v4 script failed with the server's text at its second poll
C2_Witness ==
    /\ prog = "ps"
    /\ ps.script = "v4"
    /\ ps.polls = 2
    /\ ps.s.status = "error"
    /\ ps.pc = "failed"
    /\ ps.err = <<"Job error: ", "out of memory">>

\* C3: a POST /run response without an id is the final result (rendered by
\* main.jsx, taken as $result by the v4 script) and no GET /run/{id} is sent.
C3_NoIdIsFinalResult ==
    /\ (prog = "main" /\ Truthy(run.res) /\ ~TruthyField(run.res.id)) =>
          /\ run.pc = "idle"
          /\ els.outputs = Shown("rendered", run.res, <<>>)
          /\ run.polls = 0
    /\ (prog = "ps" /\ ps.script = "v4" /\ ps.resp # JUndefined
            /\ ~HasProp(ps.resp, "id")) =>
          /\ ps.pc = "shown"
          /\ ps.result = ps.resp
          /\ ps.polls = 0

\* main.jsx rendered a full RunResult straight from POST /run
C3_Witness ==
    /\ prog = "main"
    /\ run.pc = "idle"
    /\ run.res = RunFailed
    /\ els.outputs = Shown("rendered", RunFailed, <<>>)
    /\ run.polls = 0

\* C4: a poll loop that runs out of its wait budget, the job never having been
\* done or error, fails with a timeout message that contains the job id.
C4_TimeoutNamesJob ==
    (prog = "ps" /\ ps.exit = "timed out" /\ ps.s.status \notin {"done", "error"}) =>
        Contains(ps.err, ps.JobId)

\* C5: every run-and-wait ends, whatever the polls answer: the scripts make
\* at most one poll per PollEverySec of budget, main.jsx enables Run again.
C5_RunAndWaitTerminates ==
    /\ [](prog = "ps" => (ps.polls - 1) * PollEverySec < MaxWaitSec)
    /\ [](prog = "ps" => <>(ps.pc \in {"shown", "failed", "exit 2"}))
    /\ []((prog = "main" /\ run.pc # "idle") =>
            <>(prog = "main" /\ run.pc = "idle" /\ ~els.runBtnDisabled))

\* C6: the React App's onRun tells a queued response (a /run body with an id)
\* from a RunResult: a body with an id never becomes the current result, an
\* entry of history, or a failed pipeline run.
C6_QueuedIsNotAResult ==
    prog = "app" =>
        /\ ~HasId(app.result)
        /\ \A i \in 1..Len(app.history) : ~HasId(app.history[i].res)
        /\ (app.toast = "Finished with errors" \/ app.error.kind = "pipeline") =>
                ~HasId(app.result)

\* C7: runJob, given a 2xx response whose body is not JSON, rejects with a
\* 'bad-json' error that carries the raw text, '(empty)' for an empty body.
C7_BadJsonRejected ==
    (/\ prog = "api" /\ apiPc = "settled" /\ apiOp = "runJob"
     /\ apiRes.net = "response" /\ ResOk(apiRes) /\ apiRes.text \in NotJson) =>
        /\ apiOut.settled = "rejected"
        /\ apiOut.err.kind = "bad-json"
        /\ apiOut.err.name = "Error"
        /\ apiOut.err.body = IF apiRes.text = "" THEN "(empty)" ELSE apiRes.text

\* runJob of api.js rejected an empty 200 response
C7_Witness ==
    /\ prog = "api" /\ apiFile = "api.js" /\ apiPc = "settled" /\ apiOp = "runJob"
    /\ apiRes = [net |-> "response", status |-> 200, text |-> TxtEmpty]
    /\ apiOut.err.kind = "bad-json"
    /\ apiOut.err.body = "(empty)"

\* C8: every API function rejects a non-2xx response with an error of kind
\* 'http' whose fields hold the status code, the status text and the body.
C8_HttpErrorFields ==
    (prog = "api" /\ apiPc = "settled" /\ apiRes.net = "response" /\ ~ResOk(apiRes)) =>
        /\ apiOut.settled = "rejected"
        /\ apiOut.err.kind = "http"
        /\ apiOut.err.status = ToString(apiRes.status)
        /\ apiOut.err.statusText = StatusText(apiRes.status)
        /\ apiOut.err.body = apiRes.text

\* C9: the body main.jsx sends to POST /run has page_summarize true only with
\* engine 'llm' and a host that is not empty once trimmed.
C9_SentSummarizeNeedsHost ==
    (prog = "main" /\ run.pc = "awaitRun" /\ run.req.page_summarize) =>
        run.req.engine = "llm" /\ run.req.host # <<>>

\* Run was clicked with the checkbox checked and the host field empty
C9_Witness ==
    /\ prog = "main"
    /\ run.pc = "awaitRun"
    /\ els.engine = "llm" /\ els.summarize /\ Trim(els.host) = <<>>
    /\ run.req.engine = "llm" /\ run.req.host = <<>>
    /\ ~run.req.page_summarize

\* C10: the body the React App's onRun passes to runJob has page_summarize
\* true only with engine 'llm' and a host, as sent, that is not empty.
C10_SentSummarizeNeedsHost ==
    (prog = "app" /\ app.pc = "awaitRun" /\ app.sent.page_summarize) =>
        app.sent.engine = "llm" /\ app.sent.host # <<>>

\* C11: in the React App, once rendering has settled, form.page_summarize is
\* true only with engine 'llm' and a host that is not empty or blank, after
\* any edits and preset applications.
C11_FormSummarizeNeedsHost ==
    (prog = "app" /\ app.form.page_summarize) =>
        app.form.engine = "llm" /\ Trim(app.form.host) # <<>>

\* C12: in main.jsx, after each input handler and each preset click, the
\* summarize checkbox is disabled and unchecked whenever the engine is not
\* 'llm' or the host field is empty or blank.
C12_CheckboxOffWithoutHost ==
    (prog = "main" /\ (els.engine # "llm" \/ Trim(els.host) = <<>>)) =>
        els.summarizeDisabled /\ ~els.summarize

\* a preview that buildCommandPreview has returned
Previewed == prog = "fn" /\ fn.call = "preview" /\ fn.pc = "returned"

EncoderFlags == {"--encoder", "--embed-model", "--mlm-refiner"}
LlmFlags == {"--ollama-text", "--host"}

\* C13: for every option bundle, the preview holds no flag of the engine that
\* is not selected: none of --encoder, --embed-model, --mlm-refiner with engine
\* 'llm', and neither --ollama-text nor --host with engine 'encoder'.
C13_NoFlagOfOtherEngine ==
    Previewed =>
        /\ fn.f.engine = "llm" => \A x \in EncoderFlags : ~Contains(fn.cmd, x)
        /\ fn.f.engine = "encoder" => \A x \in LlmFlags : ~Contains(fn.cmd, x)

\* an llm bundle whose preview carries the llm flags, and an encoder bundle
\* whose preview carries the encoder flags, each from App.jsx
C13_Witness ==
    /\ Previewed
    /\ fn.file = "App.jsx"
    /\ fn.f.engine = "llm"
    /\ fn.f.mlm_refiner
    /\ Contains(fn.cmd, "--ollama-text")
    /\ Contains(fn.cmd, "--host")

\* the places of an atom in a preview
Places(cmd, x) == {i \in 1..Len(cmd) : cmd[i] = x}

AdvancedOrder ==
    << "--recon-verbose", "--save-crops", "--all-ocr", "--ocr-verbose", "--no-ocr" >>

AdvancedOn(f) ==
    << f.recon_verbose, f.save_crops, f.all_ocr, f.ocr_verbose, f.no_ocr >>

\* C14: --page-summarize, directly followed by --novel or --paragraph, is in
\* the preview only when the summarization toggle is true; each advanced flag
\* is in the preview (once) exactly when its own boolean is true; and the
\* advanced flags stand in the order --recon-verbose, --save-crops, --all-ocr,
\* --ocr-verbose, --no-ocr, after every engine flag.
C14_SummarizeAndAdvancedFlags ==
    Previewed =>
        /\ \A x \in {"--page-summarize", "--novel", "--paragraph"} :
               Contains(fn.cmd, x) => fn.f.page_summarize
        /\ \A i \in Places(fn.cmd, "--page-summarize") :
               /\ i + 2 <= Len(fn.cmd)
               /\ fn.cmd[i + 1] = " "
               /\ fn.cmd[i + 2] \in {"--novel", "--paragraph"}
        /\ \A i \in Places(fn.cmd, "--novel") \cup Places(fn.cmd, "--paragraph") :
               i > 2 /\ fn.cmd[i - 2] = "--page-summarize"
        /\ \A k \in 1..5 :
               Cardinality(Places(fn.cmd, AdvancedOrder[k]))
                   = IF AdvancedOn(fn.f)[k] THEN 1 ELSE 0
        /\ \A k, l \in 1..5 :
               k < l =>
                   \A i \in Places(fn.cmd, AdvancedOrder[k]),
                      j \in Places(fn.cmd, AdvancedOrder[l]) : i < j
        /\ \A x \in EncoderFlags \cup LlmFlags, k \in 1..5 :
               \A i \in Places(fn.cmd, x), j \in Places(fn.cmd, AdvancedOrder[k]) :
                   i < j

\* a preview with the summarization flags, engine flags, and some but not all
\* of the advanced flags
C14_Witness ==
    /\ Previewed
    /\ fn.f.page_summarize
    /\ Contains(fn.cmd, "--page-summarize")
    /\ Contains(fn.cmd, "--host")
    /\ ~fn.f.recon_verbose /\ fn.f.all_ocr /\ fn.f.ocr_verbose /\ ~fn.f.no_ocr
    /\ Contains(fn.cmd, "--all-ocr") /\ Contains(fn.cmd, "--ocr-verbose")

\* the text v stands in the preview right after the flag, in double quotes
\* when it holds whitespace and bare when it does not
ShownAfter(cmd, flag, v) ==
    LET white == \E k \in 1..Len(v) : v[k] = " "
        text == IF white THEN <<"\"">> \o v \o <<"\"">> ELSE v
    IN  \A i \in Places(cmd, flag) :
            /\ i + 1 + Len(text) <= Len(cmd)
            /\ cmd[i + 1] = " "
            /\ SubSeq(cmd, i + 2, i + 1 + Len(text)) = text
            /\ i + 1 + Len(text) < Len(cmd) => cmd[i + 2 + Len(text)] = " "

\* C15: every value in the preview (input path, output directory, jsonl name,
\* model name, host, embedding model) is wrapped in double quotes when it
\* contains whitespace and stands unquoted when it does not.
C15_WhitespaceValuesQuoted ==
    Previewed =>
        /\ ShownAfter(fn.cmd, "--input", fn.f.input)
        /\ ShownAfter(fn.cmd, "--out", fn.f.out)
        /\ ShownAfter(fn.cmd, "--jsonl", fn.f.jsonl)
        /\ ShownAfter(fn.cmd, "--ollama-text", fn.f.ollama_text)
        /\ ShownAfter(fn.cmd, "--host", fn.f.host)
        /\ ShownAfter(fn.cmd, "--embed-model", fn.f.embed_model)

\* what a server reads from a URL: the text after the first '?', cut at each
\* '&' (and ended by '#')
QueryOf(url) ==
    LET q == CHOOSE i \in 1..(Len(url) + 1) :
                 /\ i = Len(url) + 1 \/ url[i] = 63
                 /\ \A j \in 1..(i - 1) : url[j] # 63
    IN  IF q > Len(url) THEN <<>> ELSE SubSeq(url, q + 1, Len(url))

\* the number of parameters in a query text
ParamCount(q) ==
    IF q = <<>> THEN 0 ELSE 1 + Cardinality({i \in 1..Len(q) : q[i] \in {38, 35}})

\* percent-decoding: %XX to a byte, any other character to itself
RECURSIVE PercentDecode(_)
PercentDecode(t) ==
    LET Unhex(c) == IF c \in 48..57 THEN c - 48
                    ELSE IF c \in 65..70 THEN c - 55
                    ELSE IF c \in 97..102 THEN c - 87 ELSE -1
    IN  IF t = <<>> THEN <<>>
        ELSE IF t[1] = 37 /\ Len(t) >= 3 /\ Unhex(t[2]) >= 0 /\ Unhex(t[3]) >= 0
             THEN <<16 * Unhex(t[2]) + Unhex(t[3])>> \o PercentDecode(SubSeq(t, 4, Len(t)))
             ELSE <<t[1]>> \o PercentDecode(Tail(t))

\* bytes in UTF-8 back to characters
RECURSIVE Utf8Decode(_)
Utf8Decode(b) ==
    IF b = <<>> THEN <<>>
    ELSE IF b[1] >= 224 /\ Len(b) >= 3
         THEN <<(b[1] - 224) * 4096 + (b[2] - 128) * 64 + (b[3] - 128)>>
              \o Utf8Decode(SubSeq(b, 4, Len(b)))
    ELSE IF b[1] >= 192 /\ Len(b) >= 2
         THEN <<(b[1] - 192) * 64 + (b[2] - 128)>> \o Utf8Decode(SubSeq(b, 3, Len(b)))
    ELSE <<b[1]>> \o Utf8Decode(Tail(b))

UrlBuilt == prog = "fn" /\ fn.call = "fileUrl" /\ fn.pc = "returned"

\* C16: for every path p, the URL that fileUrl(p) (and the script's
\* Download-Artifact) builds has exactly one query parameter, named path,
\* and percent-decoding its value gives back exactly p.
C16_FileUrlRoundTrips ==
    UrlBuilt =>
        LET q == QueryOf(fn.url) IN
        /\ ParamCount(q) = 1
        /\ Len(q) >= 5
        /\ SubSeq(q, 1, 5) = <<112, 97, 116, 104, 61>>
        /\ Utf8Decode(PercentDecode(SubSeq(q, 6, Len(q)))) = fn.p

\* a path with a space, a slash and a non-ASCII character; and paths made of
\* the characters a URL gives a meaning to
C16_Witness ==
    /\ UrlBuilt
    /\ fn.p \in {<<32, 47, 233>>, <<38, 97, 61>>, <<37, 8364, 63>>}
    /\ Len(fn.url) > Len(fn.p) + 11

\* the RunResult R of a finished run: the body of the /run response when it
\* carried no id, the result of the last poll response when it did
RunResultOf(first, lastPoll) ==
    IF HasId(first) THEN JsonObject(lastPoll.result) ELSE first

\* C17: a run whose /run response is the RunResult R itself and a run whose
\* /run response is {id}, followed by polls ending in {status: done,
\* result: R}, end alike: main.jsx has rendered R, and the v4 script holds R
\* as the result whose artifact lists it shows and downloads.
C17_SyncAndAsyncEndAlike ==
    /\ (prog = "main" /\ run.pc = "idle" /\ els.outputs.kind = "rendered") =>
           els.outputs = Shown("rendered", RunResultOf(run.res, run.st), <<>>)
    /\ (prog = "ps" /\ ps.script = "v4" /\ ps.pc = "shown") =>
           ps.result = RunResultOf(ps.resp, ps.s)

\* main.jsx has rendered RunOk after an {id} response and a done poll
C17_Witness ==
    /\ prog = "main"
    /\ run.pc = "idle"
    /\ HasId(run.res)
    /\ run.st.status = "done"
    /\ els.outputs = Shown("rendered", RunOk, <<>>)

\* the entries of a view that show one list, in the view's order
RECURSIVE EntriesOf(_, _)
EntriesOf(view, name) ==
    IF view = <<>> THEN <<>>
    ELSE (IF Head(view).of = name THEN <<Head(view)>> ELSE <<>>)
         \o EntriesOf(Tail(view), name)

\* a list is shown: one entry per path, in the list's order, each with the
\* path's file URL
ShowsList(view, list, name) ==
    LET shown == EntriesOf(view, name) IN
    /\ Len(shown) = Len(list)
    /\ \A i \in 1..Len(list) :
           /\ shown[i].label = list[i]
           /\ shown[i].href = fileUrl("api.js", list[i])

\* C18: given a RunResult, the artifact view shows one entry per path of
\* overlays, of text_files and of jsonls, in the lists' order and number,
\* each resolved through fileUrl.
C18_OneEntryPerPath ==
    (prog = "fn" /\ fn.call = "render" /\ fn.pc = "returned") =>
        /\ ShowsList(fn.view, fn.result.overlays, "overlays")
        /\ ShowsList(fn.view, fn.result.text_files, "text_files")
        /\ ShowsList(fn.view, fn.result.jsonls, "jsonls")
        /\ Len(fn.view) = Len(fn.result.overlays) + Len(fn.result.text_files)
                              + Len(fn.result.jsonls)

\* a step in which onRun's await of runJob ends
RunSettles == prog = "app" /\ app.pc = "awaitRun" /\ app'.pc = "idle"

C20_HistoryOnlyGrowsOnCompletion ==
    [][prog = "runs" =>
        IF app.pc = "awaitRun" /\ app'.pc = "idle"
        THEN \E rsp \in DriverResponses :
                 LET out == runJob(ApiOf(app.file), rsp) IN
                 IF out.settled = "rejected"
                 THEN app'.history = app.history /\ app'.result = app.result
                 ELSE /\ Len(app'.history) = Len(app.history) + 1
                      /\ app'.history[1].res = out.value
                      /\ app'.history[1].ok = out.value.ok
                      /\ app'.history[1].form = app.sent
                      /\ \A i \in 1..Len(app.history) :
                             app'.history[i + 1] = app.history[i]
                      /\ app'.result = out.value
        ELSE app'.history = app.history
    ]_vars

\* two completed runs with different results, then a rejected one
C20_Witness ==
    /\ prog = "runs"
    /\ app.pc = "idle"
    /\ Len(app.history) = 2
    /\ app.history[1].res = RunFailed
    /\ app.history[2].res = RunOk
    /\ app.toast = "Request failed"
    /\ app.result = RunFailed

\* C21: applyPreset(key) shallow-merges the preset over the form.  In every
\* step that applies a preset, each field the preset names takes the preset's
\* value and each field it does not name keeps its value; an unknown key (any
\* key when the presets did not load) leaves the form as it was.  The render
\* that follows the merge may clear page_summarize, by RunCard's rule, when
\* the merged form cannot summarize.
C21_PresetShallowMerge ==
    [][\A key \in PresetKeys :
        (prog = "app" /\ app' = applyPreset(app, key)) =>
            IF key \notin DOMAIN app.presets THEN app'.form = app.form
            ELSE LET p == app.presets[key] IN
                 \A k \in FormFields :
                     \/ app'.form[k] = IF k \in DOMAIN p THEN p[k] ELSE app.form[k]
                     \/ /\ k = "page_summarize"
                        /\ ~app'.form[k]
                        /\ ~(app'.form.engine = "llm" /\ Trim(app'.form.host) # <<>>)
    ]_vars

\* the encoder preset, which names no host, applied over a host the user typed
C21_Witness ==
    /\ prog = "app"
    /\ app.presetsPc = "loaded"
    /\ app.form = [engine |-> "encoder", host |-> <<"/">>, page_summarize |-> FALSE]

\* C22: no client operation retries.  A call of an API function has issued
\* exactly one HTTP request, pending or settled; and in main.jsx a pollJob
\* call that rejects ends the loop: the error is shown, the handler is over
\* (no timer and no request of that run is left) and the button is enabled.
C22_NoRetries ==
    [][/\ (prog = "api" /\ apiPc' \in {"pending", "settled"}) => apiReqs' = 1
       /\ (prog = "main" /\ run.pc = "awaitPoll" /\ run'.pc # "awaitPoll") =>
              \E rsp \in PollResponses :
                  LET out == pollJob("api.js", rsp) IN
                  IF out.settled = "rejected"
                  THEN /\ run'.pc = "idle"
                       /\ els'.outputs = Shown("error", JUndefined, out.err.message)
                       /\ ~els'.runBtnDisabled
                  ELSE run'.st = out.value
       /\ (prog = "main" /\ els'.outputs.kind = "error") => run'.pc = "idle"
    ]_vars

\* main.jsx after a poll that failed on the network: the loop is over
C22_Witness ==
    /\ prog = "main"
    /\ run.pc = "idle"
    /\ HasId(run.res)
    /\ run.polls >= 1
    /\ els.outputs = Shown("error", JUndefined, NetworkError.message)
    /\ ~els.runBtnDisabled

\* C23: every body submitted to POST /run carries the llm-only parameters
\* (ollama_text, host) with a value only when engine is 'llm' and the
\* encoder-only parameters (embed_model, mlm_refiner) with a value only when
\* engine is 'encoder'.
C23_NoParameterOfOtherEngine ==
    /\ (prog = "main" /\ run.pc = "awaitRun") =>
           /\ run.req.engine # "llm" =>
                  run.req.ollama_text = "null" /\ run.req.host = <<>>
           /\ run.req.engine # "encoder" =>
                  run.req.embed_model = "" /\ ~run.req.mlm_refiner
    /\ (prog = "app" /\ app.pc = "awaitRun") =>
           (app.sent.engine # "llm" => app.sent.host = <<>>)

\* C25: an upload whose response does not have ok true, or carries no server
\* path, or that failed, is told to the user and leaves the input path as it
\* was; the input path is replaced only by the server path (ui_path before
\* path) of a successful upload.
C25_FailedUploadToldAndIgnored ==
    (prog = "fn" /\ fn.call = "upload" /\ fn.pc = "returned") =>
        LET good == /\ fn.up.settled = "resolved"
                    /\ fn.up.ok = "true"
                    /\ (fn.up.ui_path # U \/ fn.up.path # U)
        IN  IF good
            THEN fn.after = IF fn.up.ui_path # U THEN fn.up.ui_path ELSE fn.up.path
            ELSE fn.told # "" /\ fn.after = fn.input

C26_DoneEndsPolling ==
    /\ (prog = "main" /\ run.st.status = "done") =>
           run.pc = "idle" /\ els.outputs.kind \in {"rendered", "No result."}
    /\ (prog = "ps" /\ ps.s.status = "done") => ps.pc = "shown"

\* C27: each history entry's form is the request body that was sent to POST
\* /run for that run and its res is that run's response.  The body is fixed
\* when the run starts: edits, preset applications and uploads while the run
\* is in flight do not change it, and none of them, then or afterwards,
\* changes an entry of the history.
C27_EntryIsWhatWasSent ==
    [][/\ (prog \in {"app", "card"} /\ app.pc = "awaitRun" /\ app'.pc = "idle"
            /\ Len(app'.history) > Len(app.history)) =>
              /\ app'.history[1].form = app.sent
              /\ \E rsp \in DriverResponses :
                     LET out == runJob(ApiOf(app.file), rsp) IN
                     out.settled = "resolved" /\ app'.history[1].res = out.value
       /\ (prog \in {"app", "card"} /\ ~(app.pc = "awaitRun" /\ app'.pc = "idle")) =>
              app'.history = app.history
       /\ (prog \in {"app", "card"} /\ app.pc = "awaitRun" /\ app'.pc = "awaitRun") =>
              app'.sent = app.sent
    ]_vars

\* an entry of a run sent with engine llm, after the user switched the form to
\* the encoder
C27_Witness ==
    /\ prog = "app"
    /\ Len(app.history) = 1
    /\ app.history[1].form.engine = "llm"
    /\ app.history[1].res = RunOk
    /\ app.form.engine = "encoder"

\* C28: a run selected in a Compare slot stays the same history entry until
\* the user changes that selection: a step that leaves leftIdx and rightIdx
\* alone, such as a further run completing, does not change what the slot shows.
C28_SlotKeepsItsRun ==
    [][(prog = "cmp" /\ app'.leftIdx = app.leftIdx /\ app'.rightIdx = app.rightIdx) =>
           /\ CompareSlot(app', app'.leftIdx) = CompareSlot(app, app.leftIdx)
           /\ CompareSlot(app', app'.rightIdx) = CompareSlot(app, app.rightIdx)
    ]_vars

\* C29: while a run is in flight the toast shows 'Running...': the timer that
\* clears the toast, scheduled when an earlier run finished, never blanks the
\* toast of a later run started before it fired.
C29_ToastWhileRunning ==
    (prog \in {"app", "runs", "card", "cmp"} /\ app.pc = "awaitRun") =>
        app.toast = "Running"

\* C30: in main.jsx the preview written by collectRequest agrees with the
\* request it returns: it contains --page-summarize exactly when the request
\* has page_summarize true, and --ollama-text and --host exactly when the
\* request has engine 'llm'.  Stated of the request a Run click collected.
C30_PreviewAgreesWithRequest ==
    (prog = "main" /\ run.pc # "idle") =>
        LET cmd == CmdText(run.req) IN
        /\ Contains(cmd, "--page-summarize") <=> run.req.page_summarize
        /\ (Contains(cmd, "--ollama-text") /\ Contains(cmd, "--host"))
               <=> run.req.engine = "llm"
====
